---- MODULE Spec2Model ----
(***************************************************************************)
(* Model of nus-logger: the byte-stream LineAssembler (utils.py), the      *)
(* line broadcaster and run loop of NUSLoggerController                    *)
(* (logger_controller.py), the NUSClient scan / connect helpers            *)
(* (ble_nus.py) and the reconnect loop of the CLI (nus_logger.py).         *)
(*                                                                         *)
(* Bytes are their ASCII codes, byte strings and text are sequences of     *)
(* codes; an Optional result is a record with a  some  flag.               *)
(***************************************************************************)
EXTENDS Integers, Sequences, FiniteSets, TLC

\* ------------------------------------------------------------------------
\* Bounds of the model
\* ------------------------------------------------------------------------
MaxBytes == 4
MaxChunk == 2
MaxTime == 3
MaxIdle == 2
MaxPublish == 3
MaxSubs == 2
MaxLimit == 2
ScanPolls == 2
MaxRunBytes == 1
MaxSessionBytes == 3
MaxConnects == 2
MaxRetries == 2
MaxApiSubs == 1
MaxApiLines == 1
MaxApiScans == 1

\* ------------------------------------------------------------------------
\* Program constants
\* ------------------------------------------------------------------------
LF == 10
CR == 13
LetterA == 97
Bytes == {LF, CR, LetterA}

VARIABLES
    assembler,   \* LineAssembler: [buf, last_activity]
    now,         \* the event loop's clock (loop.time())
    fed,         \* history: every byte passed to feed, in order
    emitted,     \* history: every line returned, <<[src, line], ...>>
    lastOp,      \* history: the latest LineAssembler call and its result
    lastFeedAt,  \* history: the clock at the latest feed call
    tail,             \* NUSLoggerController._tail
    line_subscribers, \* NUSLoggerController._line_subscribers (queue ids)
    queues,           \* the asyncio.Queue objects created so far: id -> items
    published,        \* history: every line passed to _broadcast_line
    pubCount,         \* history: number of _broadcast_line calls of this run
    tailResult,       \* the latest get_tail call: [called, limit, of, lines]
    subSince,         \* history: per queue, Len(published) when it subscribed
    settings,         \* NUSLoggerController._settings
    stop_event,       \* NUSLoggerController._stop_event
    connecting,       \* NUSLoggerController._connecting
    device,           \* NUSLoggerController._device: [some, dev]
    loop_task,        \* NUSLoggerController._loop_task: None/running/done/cancelled
    logfile_handle,   \* NUSLoggerController._logfile_handle is open
    sinkWrites,       \* every line passed to _logfile_handle.write
    client,           \* NUSClient._client: [has, is_connected, notifying]
    scanner,          \* the scan in progress: [left, seen, early]
    target,           \* the device connect_discovered is connecting to
    runPc,            \* position of the _run_loop task
    byteBudget,       \* bound: the bytes the transport delivers in all
    inRange,          \* the peripherals that advertise during this run
    idlePc,           \* position of the _idle_flush_task task
    idleWakeAt,       \* clock at which its asyncio.sleep(0.25) ends
    discPc,           \* position of the disconnect() call in progress
    discResult,       \* how the latest disconnect() call ended
    cliPc,            \* position of run_logger's connection loop
    args,             \* run_logger's arguments: [name, filter_addr, ...]
    connects,         \* history: the address of every connection made
    stopPolls,        \* history: waits begun with the stop signal set
    delays,           \* history: retry waits slept since the link was last up
    argv,             \* the command line: sys.argv[1:]
    stdin_tty,        \* sys.stdin.isatty()
    rc,               \* what run_logger returned: [some, code]
    transportUsed,    \* history: a scan or a connection was started
    apiScans,         \* the calls of NUSLoggerController.scan() in progress
    notified          \* history: the notifications handled, with their outcome

asmVars == <<assembler, now, fed, emitted, lastOp, lastFeedAt>>
bcVars == <<tail, line_subscribers, queues, published, pubCount, tailResult,
            subSince>>
ctlVars == <<settings, stop_event, connecting, device, loop_task,
             logfile_handle, sinkWrites, client, scanner, target, runPc,
             byteBudget, inRange, idlePc, idleWakeAt, discPc, discResult>>
cliVars == <<cliPc, args, connects, stopPolls, delays, argv, stdin_tty, rc,
             transportUsed>>
apiVars == <<apiScans, notified>>
vars == <<asmVars, bcVars, ctlVars, cliVars, apiVars>>

\* ------------------------------------------------------------------------
\* Sequence helpers
\* ------------------------------------------------------------------------
SeqsUpTo(S, n) == UNION {[1..k -> S] : k \in 0..n}

\* bytearray.find(b): index of the first b (1-based), 0 when absent (-1)
find(s, b) ==
    IF \E i \in 1..Len(s) : s[i] = b
    THEN CHOOSE i \in 1..Len(s) : s[i] = b /\ \A j \in 1..(i - 1) : s[j] # b
    ELSE 0

\* bytes.endswith(b) for a single byte b
endswith(s, b) == Len(s) > 0 /\ s[Len(s)] = b

Contains(s, b) == \E i \in 1..Len(s) : s[i] = b

Count(s, b) == Cardinality({i \in 1..Len(s) : s[i] = b})

Range(s) == {s[i] : i \in 1..Len(s)}

Min(a, b) == IF a < b THEN a ELSE b
Max(a, b) == IF a > b THEN a ELSE b

\* Python's s[start:] for a list s and an integer start (negative = from end)
PySliceFrom(s, start) ==
    LET n  == Len(s)
        st == IF start < 0 THEN Max(n + start, 0) ELSE Min(start, n)
    IN SubSeq(s, st + 1, n)

\* list.remove(x): drop the first occurrence; a missing x is ignored by the
\* caller (ValueError caught)
ListRemove(s, x) ==
    IF x \in Range(s)
    THEN LET i == CHOOSE k \in 1..Len(s) :
                      s[k] = x /\ \A j \in 1..(k - 1) : s[j] # x
         IN SubSeq(s, 1, i - 1) \o SubSeq(s, i + 1, Len(s))
    ELSE s

\* ------------------------------------------------------------------------
\* LineAssembler (utils.py)
\* ------------------------------------------------------------------------
\* LineAssembler.__init__: empty buffer, last activity = construction time
NewLineAssembler(t) == [buf |-> <<>>, last_activity |-> t]

\* the  while True  loop of feed: split off every complete line of the buffer
RECURSIVE FeedLoop(_, _)
FeedLoop(b, lines) ==
    LET nl == find(b, LF) IN
    IF nl = 0
    THEN [buf |-> b, lines |-> lines]
    ELSE LET line == SubSeq(b, 1, nl - 1)
             out  == IF endswith(line, CR)
                     THEN SubSeq(line, 1, Len(line) - 1)
                     ELSE line
         IN FeedLoop(SubSeq(b, nl + 1, Len(b)), Append(lines, out))

\* mutant: the CR of a CRLF is kept
RECURSIVE FeedLoopKeepCR(_, _)
FeedLoopKeepCR(b, lines) ==
    LET nl == find(b, LF) IN
    IF nl = 0
    THEN [buf |-> b, lines |-> lines]
    ELSE FeedLoopKeepCR(SubSeq(b, nl + 1, Len(b)),
                        Append(lines, SubSeq(b, 1, nl - 1)))

\* mutant: the buffer is cleared after a line instead of deleting its prefix
feed_clear_buffer(self, data, t) ==
    LET b  == self.buf \o data
        nl == find(b, LF) IN
    IF nl = 0
    THEN [self |-> [buf |-> b, last_activity |-> t], lines |-> <<>>]
    ELSE [self |-> [buf |-> <<>>, last_activity |-> t],
          lines |-> FeedLoop(SubSeq(b, 1, nl), <<>>).lines]

\* mutant: the CR of a CRLF is kept in the emitted line
feed_keep_cr(self, data, t) ==
    LET r == FeedLoopKeepCR(self.buf \o data, <<>>) IN
    [self |-> [buf |-> r.buf, last_activity |-> t], lines |-> r.lines]

\* mutant: feed forgets to restart the idle clock
feed_stale_clock(self, data, t) ==
    LET r == FeedLoop(self.buf \o data, <<>>) IN
    [self |-> [buf |-> r.buf, last_activity |-> self.last_activity],
     lines |-> r.lines]

\* LineAssembler.feed at clock t: the new object and the returned lines
feed(self, data, t) ==
    LET r == FeedLoop(self.buf \o data, <<>>) IN
    [self |-> [buf |-> r.buf, last_activity |-> t], lines |-> r.lines]

\* mutant: a flush returns the partial line but leaves it in the buffer
flush_if_idle_keep_buffer(self, idle_seconds, t) ==
    IF self.buf # <<>> /\ (t - self.last_activity) >= idle_seconds
    THEN [self |-> self, some |-> TRUE, line |-> self.buf]
    ELSE [self |-> self, some |-> FALSE, line |-> <<>>]

\* LineAssembler.flush_if_idle at clock t: the new object and the result
flush_if_idle(self, idle_seconds, t) ==
    IF self.buf # <<>> /\ (t - self.last_activity) >= idle_seconds
    THEN [self |-> [self EXCEPT !.buf = <<>>], some |-> TRUE, line |-> self.buf]
    ELSE [self |-> self, some |-> FALSE, line |-> <<>>]

\* ------------------------------------------------------------------------
\* Broadcaster part of NUSLoggerController (logger_controller.py)
\* ------------------------------------------------------------------------
tail_max == 1000

\* subscribe() creates its queue with asyncio.Queue(): maxsize 0, which
\* asyncio reads as "no limit"
maxsize == 0

\* asyncio.Queue.put_nowait: QueueFull is raised only when maxsize > 0 and
\* the queue holds maxsize items
put_nowait(q, item) ==
    IF maxsize > 0 /\ Len(q) >= maxsize
    THEN [raised |-> TRUE, q |-> q]
    ELSE [raised |-> FALSE, q |-> Append(q, item)]

\* mutant: the loop over the subscribers ends after the first put
PutFirstOnly(qs, subs, line) ==
    IF subs = <<>> THEN qs
    ELSE [qs EXCEPT ![Head(subs)] = put_nowait(@, line).q]

\* mutant: the line is put into every queue ever handed out
PutEveryQueue(qs, subs, line) ==
    [h \in DOMAIN qs |-> put_nowait(qs[h], line).q]

\* for q in list(self._line_subscribers): try: q.put_nowait(line)
\* except Exception: pass
RECURSIVE PutAll(_, _, _)
PutAll(qs, subs, line) ==
    IF subs = <<>> THEN qs
    ELSE PutAll([qs EXCEPT ![Head(subs)] = put_nowait(@, line).q],
                Tail(subs), line)

\* mutant: a new subscriber is handed the history first
subscribe_replay_tail(qs, subs) ==
    [queues |-> Append(qs, tail), subs |-> Append(subs, Len(qs) + 1)]

\* NUSLoggerController.subscribe: a fresh, empty asyncio.Queue appended to
\* _line_subscribers (queues are named by their creation number)
subscribe(qs, subs) ==
    [queues |-> Append(qs, <<>>), subs |-> Append(subs, Len(qs) + 1)]

\* NUSLoggerController.unsubscribe: list.remove(q), ValueError swallowed
unsubscribe(subs, q) == ListRemove(subs, q)

\* mutant: the history is cut before the new line is appended
broadcast_line_cut_first(t, qs, subs, line) ==
    IF line = <<>> THEN [tail |-> t, queues |-> qs]
    ELSE [tail |-> Append(IF Len(t) > tail_max
                          THEN PySliceFrom(t, -tail_max) ELSE t, line),
          queues |-> PutAll(qs, subs, line)]

\* mutant: the newest lines are cut instead of the oldest
broadcast_line_drop_newest(t, qs, subs, line) ==
    IF line = <<>> THEN [tail |-> t, queues |-> qs]
    ELSE LET a == Append(t, line) IN
         [tail |-> IF Len(a) > tail_max THEN SubSeq(a, 1, tail_max) ELSE a,
          queues |-> PutAll(qs, subs, line)]

\* NUSLoggerController._broadcast_line: the new _tail and the new queues
broadcast_line(t, qs, subs, line) ==
    IF line = <<>> THEN [tail |-> t, queues |-> qs]
    ELSE LET a == Append(t, line) IN
         [tail |-> IF Len(a) > tail_max THEN PySliceFrom(a, -tail_max) ELSE a,
          queues |-> PutAll(qs, subs, line)]

\* NUSLoggerController.get_tail: self._tail[-limit:]
get_tail(t, limit) == PySliceFrom(t, -limit)

\* ------------------------------------------------------------------------
\* NUSClient scan and selection (ble_nus.py)
\* ------------------------------------------------------------------------
\* str.lower() on ASCII codes
LowerChar(c) == IF c \in 65..90 THEN c + 32 ELSE c
lower(str) == [i \in 1..Len(str) |-> LowerChar(str[i])]

\* Python's  a in b  for strings
IsSubstr(a, b) ==
    \E i \in 0..(Len(b) - Len(a)) : SubSeq(b, i + 1, i + Len(a)) = a

\* the peripherals in radio range: "d" at A1, "D2" at A2 (stronger), and a
\* second "d" at B1 that does not advertise the NUS service UUID
DevA1 == [address |-> <<65, 49>>, name |-> <<100>>, rssi |-> -60,
          adv_nus |-> TRUE]
DevA2 == [address |-> <<65, 50>>, name |-> <<68, 50>>, rssi |-> -40,
          adv_nus |-> TRUE]
DevB1 == [address |-> <<66, 49>>, name |-> <<100>>, rssi |-> -50,
          adv_nus |-> FALSE]
Devices == {DevA1, DevA2, DevB1}

\* DiscoveredDevice(address, name, rssi, metadata) built by scan
DiscoveredDevice(d) == [address |-> d.address, name |-> d.name,
                        rssi |-> d.rssi]
NoDevice == [some |-> FALSE, dev |-> DiscoveredDevice(DevA1)]
SomeDevice(d) == [some |-> TRUE, dev |-> d]

\* the name filter of scan (lines 119-124)
NameMatches(name, dname) ==
    name = <<>> \/ (dname # <<>> /\ IsSubstr(lower(name), lower(dname)))

\* _detection: the early-exit condition (lines 94-100)
EarlyMatch(name, early_addr_substring, d) ==
    /\ early_addr_substring # <<>>
    /\ name = <<>> \/ (d.name # <<>> /\ IsSubstr(lower(name), lower(d.name)))
    /\ IsSubstr(lower(early_addr_substring), lower(d.address))

\* _detection: seen[device.address] = (device, adv), a dict in insertion
\* order
SeenAdd(seen, d) == IF d \in Range(seen) THEN seen ELSE Append(seen, d)

\* matches.sort(key=lambda x: x.rssi, reverse=True): stable, strongest first
RECURSIVE InsertByRssi(_, _)
InsertByRssi(sorted, d) ==
    IF sorted = <<>> THEN <<d>>
    ELSE IF Head(sorted).rssi >= d.rssi
         THEN <<Head(sorted)>> \o InsertByRssi(Tail(sorted), d)
         ELSE <<d>> \o sorted

RECURSIVE SortByRssi(_)
SortByRssi(ds) ==
    IF ds = <<>> THEN <<>>
    ELSE InsertByRssi(SortByRssi(SubSeq(ds, 1, Len(ds) - 1)), ds[Len(ds)])

\* the candidates scan returns for what it has seen (lines 117-148)
scan_matches(seen, name, require_adv_nus) ==
    LET Keep(d) == /\ NameMatches(name, d.name)
                   /\ require_adv_nus => d.adv_nus
        kept == SelectSeq(seen, Keep)
    IN SortByRssi([i \in 1..Len(kept) |-> DiscoveredDevice(kept[i])])

\* mutant: the preferred address is not looked at
select_target_ignore_hint(candidates, preferred_addr_substring) ==
    candidates[1]

\* scan_and_connect: narrow to the preferred address when one matches, then
\* take the first candidate (lines 177-183); candidates is not empty
select_target(candidates, preferred_addr_substring) ==
    LET Pref(c) == IsSubstr(lower(preferred_addr_substring), lower(c.address))
        filt == SelectSeq(candidates, Pref)
    IN IF preferred_addr_substring # <<>> /\ filt # <<>>
       THEN filt[1] ELSE candidates[1]

\* NUSClient.__init__: no BleakClient yet
NoClient == [has |-> FALSE, is_connected |-> FALSE, notifying |-> FALSE]

\* connect_discovered after client.connect() succeeded: self._client = client
\* and, when start_notify succeeds too, notifications are on
NewClient(notifying) == [has |-> TRUE, is_connected |-> TRUE,
                         notifying |-> notifying]

\* NUSClient.disconnect: stop notifications and close the link if connected
client_disconnect(c) ==
    [c EXCEPT !.is_connected = FALSE, !.notifying = FALSE]

NoScan == [left |-> 0, seen |-> <<>>, early |-> FALSE, name |-> <<>>,
           early_sub |-> <<>>, require_adv_nus |-> TRUE]

\* scan(): a fresh  seen  dict and the deadline, timeout from now
NewScan(name, early_addr_substring, require_adv_nus) ==
    [left |-> ScanPolls, seen |-> <<>>, early |-> FALSE, name |-> name,
     early_sub |-> early_addr_substring, require_adv_nus |-> require_adv_nus]

\* _detection(device, adv) during a scan
detection(sc, d) ==
    [sc EXCEPT !.seen = SeenAdd(sc.seen, d),
               !.early = sc.early \/ EarlyMatch(sc.name, sc.early_sub, d)]

\* the outcomes of connect_discovered: connected; client.connect() raised;
\* service or characteristic missing (the link is closed again); start_notify
\* raised (self._client is set and the link is open)
ConnectOutcomes == {"ok", "connect_error", "no_service", "notify_error"}

\* ------------------------------------------------------------------------
\* NUSLoggerController (logger_controller.py)
\* ------------------------------------------------------------------------
\* bytes.decode('utf-8', errors='replace') on bytes that are single ASCII
\* codes or stray high bytes
decode(raw) == [i \in 1..Len(raw) |-> IF raw[i] < 128 THEN raw[i] ELSE 65533]

\* bytes.hex(): two lower-case hex digits per byte
HexDigit(n) == IF n < 10 THEN 48 + n ELSE 87 + n
RECURSIVE hex(_)
hex(raw) ==
    IF raw = <<>> THEN <<>>
    ELSE <<HexDigit(Head(raw) \div 16), HexDigit(Head(raw) % 16)>>
         \o hex(Tail(raw))

\* utc_ts() / local_ts(): a non-empty timestamp text ("...Z" / "...+hh:mm")
utc_ts == <<90>>
local_ts == <<43, 48, 48, 58, 48, 48>>

\* NUSLoggerController._format_line
format_line(st, raw) ==
    LET text == decode(raw)
        ts_prefix == IF st.ts_mode = "utc" THEN utc_ts \o <<32>>
                     ELSE IF st.ts_mode = "local" THEN local_ts \o <<32>>
                     ELSE <<>>
        body == IF st.raw THEN text \o <<32, 124, 32>> \o hex(raw) ELSE text
    IN ts_prefix \o body

\* mutant: _write_line skips the log file for a line the broadcaster drops
write_line_skip_empty(t, qs, subs, handle, sink, line) ==
    LET b == broadcast_line(t, qs, subs, line) IN
    [tail |-> b.tail, queues |-> b.queues,
     sink |-> IF handle /\ line # <<>> THEN Append(sink, line) ELSE sink]

\* NUSLoggerController._write_line: broadcast, then write to the log file
write_line(t, qs, subs, handle, sink, line) ==
    LET b == broadcast_line(t, qs, subs, line) IN
    [tail |-> b.tail, queues |-> b.queues,
     sink |-> IF handle THEN Append(sink, line) ELSE sink]

\* NUSLoggerController._on_bytes: _write_line(_format_line(l)) for every
\* line l returned by feed, in order
RECURSIVE WriteLines(_, _, _, _, _, _, _)
WriteLines(st, t, qs, subs, handle, sink, lines) ==
    IF lines = <<>> THEN [tail |-> t, queues |-> qs, sink |-> sink]
    ELSE LET w == write_line(t, qs, subs, handle, sink,
                             format_line(st, Head(lines)))
         IN WriteLines(st, w.tail, w.queues, subs, handle, w.sink,
                       Tail(lines))

\* the settings a run is checked with: ts_mode, raw and logfile
SettingsChoices ==
    {[ts_mode |-> "none", raw |-> FALSE, logfile |-> TRUE],
     [ts_mode |-> "utc", raw |-> TRUE, logfile |-> TRUE]}

\* LoggerSettings() with the display and logfile options of choice c
LoggerSettings(c) ==
    [name |-> <<>>, filter_addr |-> <<>>, ts_mode |-> c.ts_mode,
     raw |-> c.raw, logfile |-> c.logfile, require_adv_nus |-> TRUE]

\* no run_logger in progress
NoArgs == [name |-> <<>>, filter_addr |-> <<>>, reconnect |-> FALSE,
           adv_filter |-> TRUE, wizard |-> FALSE, list |-> FALSE]

\* run_logger has not returned / has returned the exit code c
NoExit == [some |-> FALSE, code |-> 0]
Exit(c) == [some |-> TRUE, code |-> c]
CliIdle ==
    /\ cliPc = "none"
    /\ args = NoArgs
    /\ connects = <<>>
    /\ stopPolls = 0
    /\ delays = <<>>
    /\ argv = <<>>
    /\ stdin_tty = FALSE
    /\ rc = NoExit
    /\ transportUsed = FALSE
    /\ apiScans = 0
    /\ notified = <<>>

\* NUSLoggerController.__init__
CtlIdle ==
    /\ settings = LoggerSettings([ts_mode |-> "none", raw |-> FALSE,
                                  logfile |-> FALSE])
    /\ stop_event = FALSE
    /\ connecting = FALSE
    /\ device = NoDevice
    /\ loop_task = "None"
    /\ logfile_handle = FALSE
    /\ sinkWrites = <<>>
    /\ client = NoClient
    /\ scanner = NoScan
    /\ target = NoDevice
    /\ runPc = "none"
    /\ byteBudget = 0
    /\ inRange = {}
    /\ idlePc = "none"
    /\ idleWakeAt = 0
    /\ discPc = "idle"
    /\ discResult = "none"

\* ------------------------------------------------------------------------
\* SpecBcast: the broadcaster driven by arbitrary publish / subscribe /
\* unsubscribe / get_tail calls, from an empty or an almost full history
\* ------------------------------------------------------------------------
ShortLine == <<LetterA>>
LongLine == <<LetterA, LetterA>>
PubLines == {<<>>, ShortLine, LongLine}

\* the history after n publishes that alternate the two non-empty lines
Filler(n) == [i \in 1..n |-> IF i % 2 = 1 THEN ShortLine ELSE LongLine]

AsmIdle ==
    /\ assembler = NewLineAssembler(0)
    /\ now = 0
    /\ fed = <<>>
    /\ emitted = <<>>
    /\ lastOp = [kind |-> "none", some |-> FALSE]
    /\ lastFeedAt = 0

BcastIdle ==
    /\ tail = <<>>
    /\ line_subscribers = <<>>
    /\ queues = <<>>
    /\ published = <<>>
    /\ pubCount = 0
    /\ tailResult = [called |-> FALSE, limit |-> 0, of |-> <<>>,
                     lines |-> <<>>]
    /\ subSince = <<>>

InitBcast ==
    /\ CliIdle
    /\ AsmIdle
    /\ CtlIdle
    /\ subSince = <<>>
    /\ \E n \in {0, tail_max - 1} :
           /\ tail = Filler(n)
           /\ published = Filler(n)
    /\ line_subscribers = <<>>
    /\ queues = <<>>
    /\ pubCount = 0
    /\ tailResult = [called |-> FALSE, limit |-> 0, of |-> <<>>,
                     lines |-> <<>>]

Publish ==
    \E line \in PubLines :
        /\ pubCount < MaxPublish
        /\ LET r == broadcast_line(tail, queues, line_subscribers, line) IN
            /\ tail' = r.tail
            /\ queues' = r.queues
        /\ published' = Append(published, line)
        /\ pubCount' = pubCount + 1
        /\ UNCHANGED <<line_subscribers, tailResult, subSince>>
        /\ UNCHANGED <<asmVars, ctlVars>>
        /\ UNCHANGED <<cliVars, apiVars>>

\* subscribe(): a fresh asyncio.Queue appended to the subscriber list
Subscribe ==
    /\ Len(queues) < MaxSubs
    /\ LET r == subscribe(queues, line_subscribers) IN
        /\ queues' = r.queues
        /\ line_subscribers' = r.subs
    /\ subSince' = Append(subSince, Len(published))
    /\ UNCHANGED <<tail, published, pubCount, tailResult>>
    /\ UNCHANGED <<asmVars, ctlVars>>
    /\ UNCHANGED <<cliVars, apiVars>>

\* unsubscribe(q) for any queue handed out so far
Unsubscribe ==
    \E q \in DOMAIN queues :
        /\ line_subscribers' = unsubscribe(line_subscribers, q)
        /\ UNCHANGED <<tail, queues, published, pubCount, tailResult,
                       subSince>>
        /\ UNCHANGED <<asmVars, ctlVars>>
        /\ UNCHANGED <<cliVars, apiVars>>

GetTail ==
    \E limit \in 0..MaxLimit :
        /\ tailResult' = [called |-> TRUE, limit |-> limit, of |-> tail,
                          lines |-> get_tail(tail, limit)]
        /\ UNCHANGED <<tail, line_subscribers, queues, published, pubCount,
                       subSince>>
        /\ UNCHANGED <<asmVars, ctlVars>>
        /\ UNCHANGED <<cliVars, apiVars>>

NextBcast == Publish \/ Subscribe \/ Unsubscribe

SpecBcast == InitBcast /\ [][NextBcast]_vars

\* SpecTail: the history buffer driven by publish and get_tail calls
NextTail == Publish \/ GetTail

SpecTail == InitBcast /\ [][NextTail]_vars

\* ------------------------------------------------------------------------
\* SpecAsm: a LineAssembler driven by arbitrary feed / flush_if_idle calls
\* ------------------------------------------------------------------------
Tag(src, lines) == [i \in 1..Len(lines) |-> [src |-> src, line |-> lines[i]]]

InitAsm ==
    /\ CliIdle
    /\ assembler = NewLineAssembler(0)
    /\ now = 0
    /\ fed = <<>>
    /\ emitted = <<>>
    /\ lastOp = [kind |-> "none", some |-> FALSE]
    /\ lastFeedAt = 0
    /\ BcastIdle
    /\ CtlIdle

AsmFeed ==
    \E data \in SeqsUpTo(Bytes, MaxChunk) :
        /\ Len(fed) + Len(data) <= MaxBytes
        /\ LET r == feed(assembler, data, now) IN
            /\ assembler' = r.self
            /\ emitted' = emitted \o Tag("feed", r.lines)
            /\ lastOp' = [kind |-> "feed", data |-> data, lines |-> r.lines,
                          some |-> FALSE]
        /\ fed' = fed \o data
        /\ lastFeedAt' = now
        /\ UNCHANGED now
        /\ UNCHANGED <<bcVars, ctlVars>>
        /\ UNCHANGED <<cliVars, apiVars>>

AsmFlush ==
    \E idle \in 1..MaxIdle :
        LET r == flush_if_idle(assembler, idle, now) IN
        /\ assembler' = r.self
        /\ emitted' = IF r.some
                      THEN Append(emitted, [src |-> "flush", line |-> r.line])
                      ELSE emitted
        /\ lastOp' = [kind |-> "flush", idle |-> idle, at |-> now,
                      prebuf |-> assembler.buf, some |-> r.some,
                      line |-> r.line,
                      repeat |-> (lastOp.kind = "flush" /\ lastOp.some)]
        /\ UNCHANGED <<now, fed, lastFeedAt>>
        /\ UNCHANGED <<bcVars, ctlVars>>
        /\ UNCHANGED <<cliVars, apiVars>>

AsmTick ==
    /\ now < MaxTime
    /\ now' = now + 1
    /\ UNCHANGED <<assembler, fed, emitted, lastOp, lastFeedAt>>
    /\ UNCHANGED <<bcVars, ctlVars>>
    /\ UNCHANGED <<cliVars, apiVars>>

NextAsm == AsmFeed \/ AsmFlush \/ AsmTick

SpecAsm == InitAsm /\ [][NextAsm]_vars

\* ------------------------------------------------------------------------
\* Spec: one NUSLoggerController with its run loop, its idle-flush task, the
\* callers of its public API and the transport's events
\* ------------------------------------------------------------------------
IdleSeconds == 1

\* a new controller, with the settings it may be given, the peripherals
\* that will advertise and the number of bytes the transport will deliver
CtlFresh(choices, range, budget) ==
    /\ \E c \in choices : settings = LoggerSettings(c)
    /\ stop_event = FALSE
    /\ connecting = FALSE
    /\ device = NoDevice
    /\ loop_task = "None"
    /\ logfile_handle = FALSE
    /\ sinkWrites = <<>>
    /\ client = NoClient
    /\ scanner = NoScan
    /\ target = NoDevice
    /\ runPc = "none"
    /\ byteBudget = budget
    /\ inRange = range
    /\ idlePc = "none"
    /\ idleWakeAt = 0
    /\ discPc = "idle"
    /\ discResult = "none"

\* NUSLoggerController._retries: set to 0 in __init__ and never written again
retries == 0

\* NUSClient.is_connected: bool(self._client and self._client.is_connected)
is_connected(c) == c.has /\ c.is_connected

\* mutant: status() reports the _connecting flag as it is
status_raw_flag ==
    [connected |-> is_connected(client), connecting |-> connecting,
     device |-> device, retries |-> retries]

\* status(): the LoggerStatus snapshot (the settings are left out)
status ==
    [connected |-> is_connected(client),
     connecting |-> connecting /\ ~is_connected(client),
     device |-> device, retries |-> retries]

Init ==
    /\ CliIdle
    /\ AsmIdle
    /\ BcastIdle
    /\ CtlFresh(SettingsChoices, {DevA1, DevA2}, MaxRunBytes)

\* the arguments of connect(): name and filter_addr, each None or a string
ConnectNames == {<<>>, <<100>>}
ConnectFilters == {<<>>}

\* mutant: connect() accepts an empty name
connect_raises_never(st) == FALSE

\* connect():  if not self._settings.name: raise ValueError(...)
connect_raises(st) == st.name = <<>>

\* connect(name, filter_addr); None leaves the setting alone, an empty name
\* raises ValueError after the settings were stored
Connect ==
    \E nameGiven \in BOOLEAN, name \in ConnectNames,
       filter \in ConnectFilters :
        LET st1 == IF nameGiven THEN [settings EXCEPT !.name = name]
                   ELSE settings
            st2 == IF filter # <<>> THEN [st1 EXCEPT !.filter_addr = filter]
                   ELSE st1
        IN
        /\ nameGiven \/ name = <<>>
        /\ settings' = st2
        /\ IF connect_raises(st2)
           THEN UNCHANGED <<stop_event, loop_task, runPc>>
           ELSE /\ stop_event' = FALSE
                /\ IF loop_task = "running"
                   THEN UNCHANGED <<loop_task, runPc>>
                   ELSE /\ loop_task' = "running"
                        /\ runPc' = "start"
        /\ UNCHANGED <<byteBudget, inRange, connecting, device, logfile_handle, sinkWrites, client,
                       scanner, target, idlePc, idleWakeAt, discPc,
                       discResult>>
        /\ UNCHANGED <<asmVars, bcVars>>
        /\ UNCHANGED <<cliVars, apiVars>>

\* what ends a disconnect() call once its  await self._loop_task  is over
DiscFinish(how) ==
    IF how = "cancelled"
    THEN /\ discResult' = "raised"
         /\ UNCHANGED <<client, connecting, device>>
    ELSE /\ client' = client_disconnect(client)
         /\ connecting' = FALSE
         /\ device' = NoDevice
         /\ discResult' = "returned"

\* disconnect() up to its first suspension point
Disconnect ==
    /\ discPc = "idle"
    /\ stop_event' = TRUE
    /\ IF loop_task = "running"
       THEN /\ discPc' = "await_loop"
            /\ discResult' = "pending"
            /\ UNCHANGED <<client, connecting, device>>
       ELSE /\ DiscFinish(loop_task)
            /\ UNCHANGED discPc
    /\ UNCHANGED <<settings, loop_task, logfile_handle, sinkWrites, scanner,
                   target, runPc, byteBudget, inRange, idlePc, idleWakeAt>>
    /\ UNCHANGED <<asmVars, bcVars>>
    /\ UNCHANGED <<cliVars, apiVars>>

\* disconnect() resumed after the awaited run loop task ended
DisconnectResume ==
    /\ discPc \in {"resume_done", "resume_cancelled"}
    /\ DiscFinish(IF discPc = "resume_done" THEN "done" ELSE "cancelled")
    /\ discPc' = "idle"
    /\ UNCHANGED <<settings, stop_event, loop_task, logfile_handle,
                   sinkWrites, scanner, target, runPc, byteBudget, inRange, idlePc,
                   idleWakeAt>>
    /\ UNCHANGED <<asmVars, bcVars>>
    /\ UNCHANGED <<cliVars, apiVars>>

\* _run_loop: _reopen_logfile, create the idle task, _connecting = True and
\* scan_and_connect -> scan up to  await scanner.start()
RunStart ==
    /\ runPc = "start"
    /\ logfile_handle' = settings.logfile
    /\ idlePc' = "start"
    /\ connecting' = TRUE
    /\ scanner' = NewScan(settings.name, settings.filter_addr,
                          settings.require_adv_nus)
    /\ runPc' = "scan_start"
    /\ UNCHANGED <<settings, stop_event, device, loop_task, sinkWrites,
                   client, target, byteBudget, inRange, idleWakeAt, discPc, discResult>>
    /\ UNCHANGED <<asmVars, bcVars>>
    /\ UNCHANGED <<cliVars, apiVars>>

\* scanner.start() returns, or raises BleakError (adapter failure)
RunScanStart ==
    /\ runPc = "scan_start"
    /\ \E ok \in BOOLEAN :
           IF ok THEN runPc' = "scan_poll" /\ UNCHANGED scanner
           ELSE runPc' = "finally" /\ scanner' = NoScan
    /\ UNCHANGED <<settings, stop_event, connecting, device, loop_task,
                   logfile_handle, sinkWrites, client, target, byteBudget, inRange,
                   idlePc, idleWakeAt, discPc, discResult>>
    /\ UNCHANGED <<asmVars, bcVars>>
    /\ UNCHANGED <<cliVars, apiVars>>

\* the scanner reports an advertising device
Detect ==
    \E d \in inRange :
        /\ runPc = "scan_poll"
        /\ scanner' = detection(scanner, d)
        /\ scanner' # scanner
        /\ UNCHANGED <<settings, stop_event, connecting, device, loop_task,
                       logfile_handle, sinkWrites, client, target, runPc,
                       byteBudget, inRange, idlePc, idleWakeAt, discPc, discResult>>
        /\ UNCHANGED <<asmVars, bcVars>>
        /\ UNCHANGED <<cliVars, apiVars>>

\* scan: while loop.time() < deadline: if early: break; sleep(0.1)
RunScanPoll ==
    /\ runPc = "scan_poll"
    /\ IF scanner.left > 0 /\ ~scanner.early
       THEN /\ scanner' = [scanner EXCEPT !.left = @ - 1]
            /\ UNCHANGED runPc
       ELSE /\ runPc' = "scan_stop"
            /\ UNCHANGED scanner
    /\ UNCHANGED <<settings, stop_event, connecting, device, loop_task,
                   logfile_handle, sinkWrites, client, target, byteBudget, inRange, idlePc,
                   idleWakeAt, discPc, discResult>>
    /\ UNCHANGED <<asmVars, bcVars>>
    /\ UNCHANGED <<cliVars, apiVars>>

\* scanner.stop() returned: build the candidates; none raises BleakError,
\* otherwise connect_discovered(target) up to  await client.connect()
RunScanDone ==
    /\ runPc = "scan_stop"
    /\ LET candidates == scan_matches(scanner.seen, scanner.name,
                                      scanner.require_adv_nus)
       IN IF candidates = <<>>
          THEN /\ runPc' = "finally"
               /\ UNCHANGED target
          ELSE /\ runPc' = "connect"
               /\ target' = SomeDevice(select_target(candidates,
                                                     scanner.early_sub))
    /\ scanner' = NoScan
    /\ UNCHANGED <<settings, stop_event, connecting, device, loop_task,
                   logfile_handle, sinkWrites, client, byteBudget, inRange, idlePc,
                   idleWakeAt, discPc, discResult>>
    /\ UNCHANGED <<asmVars, bcVars>>
    /\ UNCHANGED <<cliVars, apiVars>>

\* connect_discovered ends; on success _run_loop stores the device, clears
\* _connecting and enters run_until_disconnect()
RunConnect ==
    /\ runPc = "connect"
    /\ \E outcome \in ConnectOutcomes :
        IF outcome = "ok"
        THEN /\ client' = NewClient(TRUE)
             /\ device' = target
             /\ connecting' = FALSE
             /\ runPc' = "session"
        ELSE /\ client' = IF outcome = "notify_error"
                          THEN NewClient(FALSE) ELSE client
             /\ runPc' = "finally"
             /\ UNCHANGED <<device, connecting>>
    /\ target' = NoDevice
    /\ UNCHANGED <<settings, stop_event, loop_task, logfile_handle,
                   sinkWrites, scanner, byteBudget, inRange, idlePc, idleWakeAt,
                   discPc, discResult>>
    /\ UNCHANGED <<asmVars, bcVars>>
    /\ UNCHANGED <<cliVars, apiVars>>

\* run_until_disconnect(): while self._client.is_connected: sleep(0.25)
\* (no stop_event is passed, so nothing else is looked at)
RunSessionWait ==
    /\ runPc = "session"
    /\ client.is_connected
    /\ UNCHANGED vars

\* run_until_disconnect() sees the link gone and returns
RunSessionEnd ==
    /\ runPc = "session"
    /\ ~client.is_connected
    /\ runPc' = "finally"
    /\ UNCHANGED <<settings, stop_event, connecting, device, loop_task,
                   logfile_handle, sinkWrites, client, scanner, target, byteBudget, inRange,
                   idlePc, idleWakeAt, discPc, discResult>>
    /\ UNCHANGED <<asmVars, bcVars>>
    /\ UNCHANGED <<cliVars, apiVars>>

\* the rest of the finally block: flags reset, stop event cleared, idle task
\* cancelled; awaiting an idle task that already returned ends the run loop
Cleanup ==
    /\ connecting' = FALSE
    /\ device' = NoDevice
    /\ stop_event' = FALSE
    /\ IF idlePc = "done"
       THEN /\ runPc' = "done"
            /\ loop_task' = "done"
            /\ discPc' = IF discPc = "await_loop" THEN "resume_done"
                         ELSE discPc
            /\ UNCHANGED <<idlePc, idleWakeAt>>
       ELSE /\ idlePc' = "cancelled"
            /\ idleWakeAt' = 0
            /\ runPc' = "await_idle"
            /\ UNCHANGED <<loop_task, discPc>>

\* finally:  await self._client.disconnect()  suspends only when a link is
\* open; otherwise the block runs on
RunFinally ==
    /\ runPc = "finally"
    /\ IF client.has /\ client.is_connected
       THEN /\ client' = client_disconnect(client)
            /\ runPc' = "cleanup"
            /\ UNCHANGED <<connecting, device, stop_event, idlePc, loop_task,
                           discPc, idleWakeAt>>
       ELSE /\ Cleanup
            /\ UNCHANGED client
    /\ UNCHANGED <<settings, logfile_handle, sinkWrites, scanner, target,
                   byteBudget, inRange, discResult>>
    /\ UNCHANGED <<asmVars, bcVars>>
    /\ UNCHANGED <<cliVars, apiVars>>

RunCleanup ==
    /\ runPc = "cleanup"
    /\ Cleanup
    /\ UNCHANGED <<settings, logfile_handle, sinkWrites, client, scanner,
                   target, byteBudget, inRange, discResult>>
    /\ UNCHANGED <<asmVars, bcVars>>
    /\ UNCHANGED <<cliVars, apiVars>>

\* await idle_task  on the cancelled idle task raises CancelledError, which
\* except Exception  does not catch: the run loop task ends cancelled
RunAwaitIdle ==
    /\ runPc = "await_idle"
    /\ runPc' = "done"
    /\ loop_task' = "cancelled"
    /\ discPc' = IF discPc = "await_loop" THEN "resume_cancelled" ELSE discPc
    /\ UNCHANGED <<settings, stop_event, connecting, device, logfile_handle,
                   sinkWrites, client, scanner, target, byteBudget, inRange, idlePc,
                   idleWakeAt, discResult>>
    /\ UNCHANGED <<asmVars, bcVars>>
    /\ UNCHANGED <<cliVars, apiVars>>

\* _idle_flush_task: while not stop_event.is_set(): sleep(0.25)
IdleLoopTest ==
    IF stop_event
    THEN idlePc' = "done" /\ idleWakeAt' = 0
    ELSE idlePc' = "sleep" /\ idleWakeAt' = now + IdleSeconds

IdleStart ==
    /\ idlePc = "start"
    /\ IdleLoopTest
    /\ UNCHANGED <<settings, stop_event, connecting, device, loop_task,
                   logfile_handle, sinkWrites, client, scanner, target, runPc,
                   byteBudget, inRange, discPc, discResult>>
    /\ UNCHANGED <<asmVars, bcVars>>
    /\ UNCHANGED <<cliVars, apiVars>>

\* the sleep is over: flush_if_idle(0.25), write a flushed part, loop
IdleWake ==
    /\ idlePc = "sleep"
    /\ now >= idleWakeAt
    /\ LET r == flush_if_idle(assembler, IdleSeconds, now)
           w == WriteLines(settings, tail, queues, line_subscribers,
                           logfile_handle, sinkWrites,
                           IF r.some THEN <<r.line>> ELSE <<>>)
       IN /\ assembler' = r.self
          /\ tail' = w.tail
          /\ queues' = w.queues
          /\ sinkWrites' = w.sink
          /\ emitted' = IF r.some
                        THEN Append(emitted, [src |-> "flush", line |-> r.line])
                        ELSE emitted
          /\ published' = IF r.some
                          THEN Append(published, format_line(settings, r.line))
                          ELSE published
    /\ IdleLoopTest
    /\ UNCHANGED <<now, fed, lastOp, lastFeedAt>>
    /\ UNCHANGED <<line_subscribers, pubCount, tailResult, subSince>>
    /\ UNCHANGED <<settings, stop_event, connecting, device, loop_task,
                   logfile_handle, client, scanner, target, runPc, byteBudget, inRange,
                   discPc, discResult>>
    /\ UNCHANGED <<cliVars, apiVars>>

\* a notification arrives: _notification_handler -> _on_bytes(chunk)
OnBytes ==
    \E chunk \in SeqsUpTo(Bytes, MaxChunk) \ {<<>>} :
        /\ client.is_connected /\ client.notifying
        /\ Len(fed) + Len(chunk) <= byteBudget
        /\ LET r == feed(assembler, chunk, now)
               w == WriteLines(settings, tail, queues, line_subscribers,
                               logfile_handle, sinkWrites, r.lines)
           IN /\ assembler' = r.self
              /\ tail' = w.tail
              /\ queues' = w.queues
              /\ sinkWrites' = w.sink
              /\ emitted' = emitted \o Tag("feed", r.lines)
              /\ published' = published \o
                     [i \in 1..Len(r.lines) |-> format_line(settings, r.lines[i])]
        /\ fed' = fed \o chunk
        /\ UNCHANGED <<now, lastOp, lastFeedAt>>
        /\ UNCHANGED <<line_subscribers, pubCount, tailResult, subSince>>
        /\ UNCHANGED <<settings, stop_event, connecting, device, loop_task,
                       logfile_handle, client, scanner, target, runPc, byteBudget, inRange,
                       idlePc, idleWakeAt, discPc, discResult>>
        /\ UNCHANGED <<cliVars, apiVars>>

\* the peer drops the link (or radio loss)
PeerDisconnect ==
    /\ client.is_connected
    /\ client' = client_disconnect(client)
    /\ UNCHANGED <<settings, stop_event, connecting, device, loop_task,
                   logfile_handle, sinkWrites, scanner, target, runPc, byteBudget, inRange,
                   idlePc, idleWakeAt, discPc, discResult>>
    /\ UNCHANGED <<asmVars, bcVars>>
    /\ UNCHANGED <<cliVars, apiVars>>

\* the clock advances by one idle period (0.25 s); once it stands at
\* IdleSeconds the origin moves instead, so that clock differences are told
\* apart only up to the idle threshold, the one value they are compared with
Tick ==
    /\ IF now < IdleSeconds
       THEN /\ now' = now + 1
            /\ UNCHANGED <<assembler, idleWakeAt>>
       ELSE /\ assembler' = [assembler EXCEPT
                                !.last_activity = Max(0, @ - 1)]
            /\ idleWakeAt' = Max(0, idleWakeAt - 1)
            /\ UNCHANGED now
    /\ <<now, assembler, idleWakeAt>>' # <<now, assembler, idleWakeAt>>
    /\ UNCHANGED <<fed, emitted, lastOp, lastFeedAt>>
    /\ UNCHANGED bcVars
    /\ UNCHANGED <<settings, stop_event, connecting, device, loop_task,
                   logfile_handle, sinkWrites, client, scanner, target, runPc,
                   byteBudget, inRange, idlePc, discPc, discResult>>
    /\ UNCHANGED <<cliVars, apiVars>>

Next ==
    \/ Connect \/ Disconnect \/ DisconnectResume
    \/ RunStart \/ RunScanStart \/ Detect \/ RunScanPoll \/ RunScanDone
    \/ RunConnect \/ RunSessionWait \/ RunSessionEnd
    \/ RunFinally \/ RunCleanup \/ RunAwaitIdle
    \/ IdleStart \/ IdleWake
    \/ OnBytes \/ PeerDisconnect \/ Tick

Spec == Init /\ [][Next]_vars

\* ------------------------------------------------------------------------
\* The controller with its public scan(): NUSLoggerController.scan calls
\* NUSClient.scan directly, whatever the run loop is doing
\* ------------------------------------------------------------------------
\* scan(name, timeout) up to  await self._client.scan(...)
ApiScanStart ==
    /\ apiScans < MaxApiScans
    /\ apiScans' = apiScans + 1
    /\ UNCHANGED <<asmVars, bcVars, ctlVars, cliVars, notified>>

\* the scan is over and scan() returns its list; no controller state changes
ApiScanEnd ==
    /\ apiScans > 0
    /\ apiScans' = apiScans - 1
    /\ UNCHANGED <<asmVars, bcVars, ctlVars, cliVars, notified>>

\* a new controller with one device in range
InitScan ==
    /\ CliIdle
    /\ AsmIdle
    /\ BcastIdle
    /\ CtlFresh({[ts_mode |-> "none", raw |-> FALSE, logfile |-> FALSE]},
                {DevA1}, MaxRunBytes)

NextScan == Next \/ ApiScanStart \/ ApiScanEnd

SpecScan == InitScan /\ [][NextScan]_vars

\* ------------------------------------------------------------------------
\* SpecApi: the controller with one peripheral in range that sends whole
\* lines, its callers subscribing and unsubscribing at any moment of a run
\* ------------------------------------------------------------------------
ApiLine == <<LetterA, LF>>

InitApi ==
    /\ CliIdle
    /\ AsmIdle
    /\ BcastIdle
    /\ CtlFresh({[ts_mode |-> "none", raw |-> FALSE, logfile |-> TRUE]},
                {DevA1}, Len(ApiLine) * MaxApiLines)

\* subscribe(), for at most MaxApiSubs queues in a run
ApiSubscribe == Len(queues) < MaxApiSubs /\ Subscribe

\* the peripheral sends one whole line per notification
ApiOnBytes == OnBytes /\ fed' = fed \o ApiLine

NextApi ==
    \/ Connect \/ Disconnect \/ DisconnectResume
    \/ ApiSubscribe \/ Unsubscribe
    \/ RunStart \/ RunScanStart \/ Detect \/ RunScanPoll \/ RunScanDone
    \/ RunConnect \/ RunSessionWait \/ RunSessionEnd
    \/ RunFinally \/ RunCleanup \/ RunAwaitIdle
    \/ IdleStart \/ IdleWake
    \/ ApiOnBytes \/ PeerDisconnect \/ Tick

SpecApi == InitApi /\ [][NextApi]_vars

\* ------------------------------------------------------------------------
\* SpecSession: one session of the controller, from the moment
\* scan_and_connect has returned (the idle task is in its first sleep)
\* until the run loop has ended
\* ------------------------------------------------------------------------
SessionChoices ==
    SettingsChoices \cup {[ts_mode |-> "none", raw |-> FALSE,
                           logfile |-> FALSE]}

InitSession ==
    /\ CliIdle
    /\ AsmIdle
    /\ BcastIdle
    /\ \E c \in SessionChoices :
           /\ settings = [LoggerSettings(c) EXCEPT !.name = <<100>>]
           /\ logfile_handle = c.logfile
    /\ stop_event = FALSE
    /\ connecting = FALSE
    /\ device = SomeDevice(DiscoveredDevice(DevA1))
    /\ loop_task = "running"
    /\ sinkWrites = <<>>
    /\ client = NewClient(TRUE)
    /\ scanner = NoScan
    /\ target = NoDevice
    /\ runPc = "session"
    /\ byteBudget = MaxSessionBytes
    /\ inRange = {DevA1}
    /\ idlePc = "sleep"
    /\ idleWakeAt = IdleSeconds
    /\ discPc = "idle"
    /\ discResult = "none"

NextSession ==
    \/ Subscribe
    \/ OnBytes \/ IdleWake \/ Tick
    \/ PeerDisconnect
    \/ RunSessionWait \/ RunSessionEnd
    \/ RunFinally \/ RunAwaitIdle

SpecSession == InitSession /\ [][NextSession]_vars

\* ------------------------------------------------------------------------
\* NUSClient._notification_handler with a callback that may raise
\* (ble_nus.py)
\* ------------------------------------------------------------------------
\* how a call of the registered callback ends: it returns, or an Exception
\* is raised while it handles one of the lines of the chunk
CallbackOutcomes == {"returns", "Exception"}

\* mutant: the callback is called without try/except
notification_handler_unguarded(outcome) == outcome # "returns"

\* _notification_handler:  try: self._notify_cb(bytes(data))  except
\* Exception: log. TRUE when the exception leaves the handler
notification_handler(outcome) == outcome \notin {"returns", "Exception"}

InitNotify ==
    /\ CliIdle
    /\ AsmIdle
    /\ BcastIdle
    /\ settings = [LoggerSettings([ts_mode |-> "none", raw |-> FALSE,
                                   logfile |-> TRUE])
                      EXCEPT !.name = <<100>>]
    /\ logfile_handle = TRUE
    /\ stop_event = FALSE
    /\ connecting = FALSE
    /\ device = SomeDevice(DiscoveredDevice(DevA1))
    /\ loop_task = "running"
    /\ sinkWrites = <<>>
    /\ client = NewClient(TRUE)
    /\ scanner = NoScan
    /\ target = NoDevice
    /\ runPc = "session"
    /\ byteBudget = MaxSessionBytes
    /\ inRange = {DevA1}
    /\ idlePc = "sleep"
    /\ idleWakeAt = IdleSeconds
    /\ discPc = "idle"
    /\ discResult = "none"

\* a notification arrives: _notification_handler calls the callback
\* (_on_bytes: feed, then _write_line for every line). A callback that
\* raises while it handles line k has written the lines before it. An
\* exception that leaves the handler reaches the transport's dispatcher,
\* which may stop delivering
Notify ==
    \E chunk \in SeqsUpTo(Bytes, MaxChunk) \ {<<>>},
       outcome \in CallbackOutcomes :
        /\ is_connected(client) /\ client.notifying
        /\ Len(fed) + Len(chunk) <= byteBudget
        /\ LET r == feed(assembler, chunk, now) IN
           \E k \in 0..Len(r.lines) :
             /\ IF outcome = "returns" THEN k = Len(r.lines)
                                       ELSE k < Len(r.lines)
             /\ LET done == SubSeq(r.lines, 1, k)
                    w == WriteLines(settings, tail, queues, line_subscribers,
                                    logfile_handle, sinkWrites, done)
                IN /\ assembler' = r.self
                   /\ tail' = w.tail
                   /\ queues' = w.queues
                   /\ sinkWrites' = w.sink
                   /\ emitted' = emitted \o Tag("feed", r.lines)
                   /\ published' = published \o
                          [i \in 1..k |-> format_line(settings, done[i])]
        /\ fed' = fed \o chunk
        /\ notified' = Append(notified,
                              [data |-> chunk, outcome |-> outcome,
                               left |-> notification_handler(outcome)])
        /\ IF notification_handler(outcome)
           THEN client' \in {client, [client EXCEPT !.notifying = FALSE]}
           ELSE UNCHANGED client
        /\ UNCHANGED <<now, lastOp, lastFeedAt>>
        /\ UNCHANGED <<line_subscribers, pubCount, tailResult, subSince>>
        /\ UNCHANGED <<settings, stop_event, connecting, device, loop_task,
                       logfile_handle, scanner, target, runPc, byteBudget,
                       inRange, idlePc, idleWakeAt, discPc, discResult>>
        /\ UNCHANGED <<cliVars, apiScans>>

NextNotify ==
    \/ Notify \/ PeerDisconnect
    \/ RunSessionWait \/ RunSessionEnd

SpecNotify == InitNotify /\ [][NextNotify]_vars

\* ------------------------------------------------------------------------
\* NUSClient driven directly: connect_discovered, run_until_disconnect with
\* or without a stop event, the stop event and the peer (ble_nus.py)
\* ------------------------------------------------------------------------
InitClient ==
    /\ AsmIdle
    /\ BcastIdle
    /\ CtlFresh({[ts_mode |-> "none", raw |-> FALSE, logfile |-> FALSE]},
                Devices, 0)
    /\ cliPc = "idle"
    /\ args = NoArgs
    /\ connects = <<>>
    /\ stopPolls = 0
    /\ delays = <<>>
    /\ argv = <<>>
    /\ stdin_tty = FALSE
    /\ rc = NoExit
    /\ transportUsed = FALSE
    /\ apiScans = 0
    /\ notified = <<>>

\* what the calls of the client leave alone
clientRest == <<settings, stop_event, connecting, device, loop_task,
                logfile_handle, sinkWrites, scanner, target, runPc,
                byteBudget, inRange, idlePc, idleWakeAt, discPc, discResult,
                args, stopPolls, delays, argv, stdin_tty, rc, transportUsed,
                apiVars>>

\* mutant: on a stop the loop is left without closing the link
run_until_step_break_only(c, stop) ==
    IF ~is_connected(c) THEN [pc |-> "returned", client |-> c]
    ELSE IF stop THEN [pc |-> "returned", client |-> c]
    ELSE [pc |-> "waiting", client |-> c]

\* one turn of  while self._client.is_connected: if stop_event and
\* stop_event.is_set(): await self.disconnect(); break; await sleep(0.25)
run_until_step(c, stop) ==
    IF ~is_connected(c) THEN [pc |-> "returned", client |-> c]
    ELSE IF stop THEN [pc |-> "returned", client |-> client_disconnect(c)]
    ELSE [pc |-> "waiting", client |-> c]

\* connect_discovered(d) from outside any wait, with its outcomes
ClientConnect ==
    \E d \in inRange, outcome \in ConnectOutcomes :
        /\ cliPc \in {"idle", "returned", "raised"}
        /\ Len(connects) < MaxConnects
        /\ client' = IF outcome = "ok" THEN NewClient(TRUE)
                      ELSE IF outcome = "notify_error" THEN NewClient(FALSE)
                      ELSE client
        /\ connects' = IF outcome = "ok" THEN Append(connects, d.address)
                        ELSE connects
        /\ cliPc' = "idle"
        /\ UNCHANGED <<asmVars, bcVars, clientRest>>

\* run_until_disconnect(stop_event) or run_until_disconnect(): without a
\* BleakClient it raises BleakError("Not connected"), else the loop begins
RunUntilCall ==
    \E withSignal \in BOOLEAN :
        /\ cliPc \in {"idle", "returned", "raised"}
        /\ IF ~client.has
           THEN cliPc' = "raised" /\ UNCHANGED client
           ELSE LET r == run_until_step(client, withSignal /\ stop_event)
                IN /\ client' = r.client
                   /\ cliPc' = IF r.pc = "returned" THEN "returned"
                                ELSE IF withSignal THEN "waiting"
                                ELSE "waiting_plain"
        /\ UNCHANGED connects
        /\ UNCHANGED <<asmVars, bcVars, clientRest>>

\* the sleep(0.25) of the loop is over: the next turn
RunUntilWake ==
    /\ cliPc \in {"waiting", "waiting_plain"}
    /\ LET r == run_until_step(client, cliPc = "waiting" /\ stop_event)
       IN /\ client' = r.client
          /\ cliPc' = IF r.pc = "returned" THEN "returned" ELSE cliPc
    /\ UNCHANGED connects
    /\ UNCHANGED <<asmVars, bcVars, clientRest>>

\* the owner of the stop event sets it
StopSet ==
    /\ ~stop_event
    /\ stop_event' = TRUE
    /\ UNCHANGED <<settings, connecting, device, loop_task, logfile_handle,
                   sinkWrites, client, scanner, target, runPc, byteBudget,
                   inRange, idlePc, idleWakeAt, discPc, discResult>>
    /\ UNCHANGED <<asmVars, bcVars, cliVars, apiVars>>

NextClient ==
    \/ ClientConnect \/ RunUntilCall \/ RunUntilWake
    \/ StopSet \/ PeerDisconnect

SpecClient == InitClient /\ [][NextClient]_vars

\* ------------------------------------------------------------------------
\* SpecCli: the connection loop of run_logger (nus_logger.py), which drives
\* its own NUSClient: client, scanner, target, device and stop_event are
\* here the objects of run_logger
\* ------------------------------------------------------------------------
\* command-line options: a flag, or an option with its value
Opt(flag, val) == [flag |-> flag, val |-> val]
AllOpts ==
    <<Opt("--wizard", <<>>), Opt("--list", <<>>), Opt("--name", <<100>>),
      Opt("--filter-addr", <<97, 49>>), Opt("--no-reconnect", <<>>),
      Opt("--no-adv-filter", <<>>)>>

\* the command lines: no argument at all, --verbose alone, and every
\* selection of the options above
ArgvChoices ==
    {<<Opt("--verbose", <<>>)>>} \cup
    {SelectSeq(AllOpts, LAMBDA o : o \in S) : S \in SUBSET Range(AllOpts)}

HasOpt(av, flag) == \E i \in 1..Len(av) : av[i].flag = flag
OptVal(av, flag) ==
    IF HasOpt(av, flag)
    THEN av[CHOOSE i \in 1..Len(av) : av[i].flag = flag].val
    ELSE <<>>

\* mutant: the wizard is chosen only by --wizard
parse_args_explicit_wizard(av) ==
    [name |-> OptVal(av, "--name"),
     filter_addr |-> OptVal(av, "--filter-addr"),
     reconnect |-> ~HasOpt(av, "--no-reconnect"),
     adv_filter |-> ~HasOpt(av, "--no-adv-filter"),
     wizard |-> HasOpt(av, "--wizard"),
     list |-> HasOpt(av, "--list")]

\* parse_args(argv): the options, --reconnect and --adv-filter on by
\* default, no argument at all means --wizard, no --name means "" (the
\* NUS_NAME environment variable is taken to be unset)
parse_args(av) ==
    [name |-> OptVal(av, "--name"),
     filter_addr |-> OptVal(av, "--filter-addr"),
     reconnect |-> ~HasOpt(av, "--no-reconnect"),
     adv_filter |-> ~HasOpt(av, "--no-adv-filter"),
     wizard |-> HasOpt(av, "--wizard") \/ av = <<>>,
     list |-> HasOpt(av, "--list")]

\* what the steps of run_logger's connection loop leave alone
cliBase == <<settings, connecting, loop_task, logfile_handle, sinkWrites,
             runPc, byteBudget, inRange, idleWakeAt, discPc, discResult,
             args, argv, stdin_tty, transportUsed, apiVars>>
cliRest == <<cliBase, idlePc, rc>>

\* run_logger up to the first scan's  await scanner.start()
InitCli ==
    /\ AsmIdle
    /\ BcastIdle
    /\ settings = LoggerSettings([ts_mode |-> "none", raw |-> FALSE,
                                  logfile |-> FALSE])
    /\ stop_event = FALSE
    /\ connecting = FALSE
    /\ device = NoDevice
    /\ loop_task = "None"
    /\ logfile_handle = FALSE
    /\ sinkWrites = <<>>
    /\ client = NoClient
    /\ target = NoDevice
    /\ runPc = "none"
    /\ byteBudget = 0
    /\ inRange = Devices
    /\ idlePc = "start"
    /\ idleWakeAt = 0
    /\ discPc = "idle"
    /\ discResult = "none"
    /\ argv \in ArgvChoices
    /\ args = parse_args(argv)
    /\ ~args.wizard /\ ~args.list
    /\ stdin_tty = FALSE
    /\ rc = NoExit
    /\ transportUsed = TRUE
    /\ apiScans = 0
    /\ notified = <<>>
    /\ scanner = NewScan(args.name, <<>>, args.adv_filter)
    /\ cliPc = "scan_start"
    /\ connects = <<>>
    /\ stopPolls = 0
    /\ delays = <<>>

\* handle_sigint: stop_event.set(); outer_client is never assigned, so no
\* disconnect is scheduled
Sigint ==
    /\ cliPc \notin {"none", "done"}
    /\ stop_event' = TRUE
    /\ UNCHANGED <<device, client, scanner, target, cliPc, connects,
                   stopPolls, delays>>
    /\ UNCHANGED <<asmVars, bcVars, cliRest>>

\* an  await asyncio.sleep(...)  of the loop begins
BeginWait == stopPolls' = stopPolls + (IF stop_event THEN 1 ELSE 0)

\* await asyncio.sleep(1.0)  of the reconnect loop, in tenths of a second
RetryDelay == 10

\* a BleakError: the first connection attempt ends the run, the reconnect
\* loop catches it and sleeps one second (line 416)
CliBleakError(reconnecting) ==
    IF reconnecting
    THEN /\ Len(delays) < MaxRetries
         /\ cliPc' = "retry_sleep"
         /\ BeginWait
         /\ delays' = Append(delays, RetryDelay)
    ELSE cliPc' = "finally" /\ UNCHANGED <<stopPolls, delays>>

\* the reconnect attempt: scan_and_connect(name=device.name,
\* preferred_addr_substring=device.address) up to  await scanner.start()
Rescan ==
    /\ cliPc' = "scan_start"
    /\ scanner' = NewScan(device.dev.name, device.dev.address,
                          args.adv_filter)

\* scanner.start() returns, or raises BleakError
CliScanStart ==
    /\ cliPc = "scan_start"
    /\ \E ok \in BOOLEAN :
           IF ok
           THEN cliPc' = "scan_poll"
                /\ UNCHANGED <<scanner, stopPolls, delays>>
           ELSE CliBleakError(device.some) /\ scanner' = NoScan
    /\ UNCHANGED <<stop_event, device, client, target, connects>>
    /\ UNCHANGED <<asmVars, bcVars, cliRest>>

\* the scanner reports an advertising device
CliDetect ==
    \E d \in inRange :
        /\ cliPc = "scan_poll"
        /\ scanner' = detection(scanner, d)
        /\ scanner' # scanner
        /\ UNCHANGED <<stop_event, device, client, target, cliPc, connects,
                       stopPolls, delays>>
        /\ UNCHANGED <<asmVars, bcVars, cliRest>>

\* scan: while loop.time() < deadline: if early: break; sleep(0.1)
CliScanPoll ==
    /\ cliPc = "scan_poll"
    /\ IF scanner.left > 0 /\ ~scanner.early
       THEN /\ scanner' = [scanner EXCEPT !.left = @ - 1]
            /\ BeginWait
            /\ UNCHANGED <<cliPc, delays>>
       ELSE /\ cliPc' = "scan_stop"
            /\ UNCHANGED <<scanner, stopPolls, delays>>
    /\ UNCHANGED <<stop_event, device, client, target, connects>>
    /\ UNCHANGED <<asmVars, bcVars, cliRest>>

\* scanner.stop() returned. First scan (lines 346-370): no device raises
\* BleakError, else narrow by --filter-addr and take devices[0]. Rescan
\* (scan_and_connect): no candidate raises BleakError, else select the target
CliScanDone ==
    /\ cliPc = "scan_stop"
    /\ LET candidates == scan_matches(scanner.seen, scanner.name,
                                      scanner.require_adv_nus)
       IN IF candidates = <<>>
          THEN /\ CliBleakError(device.some)
               /\ scanner' = NoScan
               /\ UNCHANGED <<device, target>>
          ELSE IF device.some
          THEN /\ target' = SomeDevice(select_target(candidates,
                                                     device.dev.address))
               /\ cliPc' = "reconnect"
               /\ UNCHANGED <<device, stopPolls, delays, scanner>>
          ELSE /\ target' = SomeDevice(select_target(candidates,
                                                     args.filter_addr))
               /\ device' = target'
               /\ cliPc' = "connect"
               /\ UNCHANGED <<stopPolls, delays, scanner>>
    /\ UNCHANGED <<stop_event, client, connects>>
    /\ UNCHANGED <<asmVars, bcVars, cliRest>>

\* connect_discovered(target) ends. Connected for the first time: on to
\* run_until_disconnect; reconnected: device = next_dev, break, and the stop
\* signal is looked at (line 418). A BleakError ends the run or is retried
CliConnect ==
    /\ cliPc \in {"connect", "reconnect"}
    /\ \E outcome \in ConnectOutcomes :
        IF outcome = "ok"
        THEN /\ client' = NewClient(TRUE)
             /\ device' = target
             /\ connects' = Append(connects, target.dev.address)
             /\ cliPc' = IF cliPc = "connect" THEN "first_session"
                         ELSE IF stop_event THEN "finally" ELSE "session"
             /\ delays' = <<>>
             /\ UNCHANGED stopPolls
        ELSE /\ client' = IF outcome = "notify_error"
                          THEN NewClient(FALSE) ELSE client
             /\ CliBleakError(cliPc = "reconnect")
             /\ UNCHANGED <<device, connects>>
    /\ target' = NoDevice
    /\ scanner' = NoScan
    /\ UNCHANGED stop_event
    /\ UNCHANGED <<asmVars, bcVars, cliRest>>

\* run_until_disconnect(stop_event): the link is up and no stop is
\* requested, sleep(0.25)
CliSessionWait ==
    /\ cliPc \in {"first_session", "session"}
    /\ client.is_connected /\ ~stop_event
    /\ UNCHANGED vars

\* run_until_disconnect(stop_event) returns: the link is gone, or the stop
\* signal is set and the link is closed. After the first session (line 381)
\* no reconnect or a stop means  return 0  from inside the try block; after
\* a later session the loop tests (lines 387, 393) lead to the end of the
\* try block or to a reconnect attempt
CliSessionEnd ==
    /\ cliPc \in {"first_session", "session"}
    /\ ~client.is_connected \/ stop_event
    /\ client' = client_disconnect(client)
    /\ IF ~args.reconnect \/ stop_event
       THEN /\ cliPc' = IF cliPc = "first_session" THEN "return"
                        ELSE "finally"
            /\ UNCHANGED scanner
       ELSE Len(connects) < MaxConnects /\ Rescan
    /\ UNCHANGED <<stop_event, device, target, connects, stopPolls, delays>>
    /\ UNCHANGED <<asmVars, bcVars, cliRest>>

\* asyncio.sleep(1.0) after a failed attempt is over:  while not
\* stop_event.is_set()  tries again or leaves the loop
CliRetrySleep ==
    /\ cliPc = "retry_sleep"
    /\ IF stop_event
       THEN cliPc' = "finally" /\ UNCHANGED scanner
       ELSE Rescan
    /\ UNCHANGED <<stop_event, device, client, target, connects, stopPolls,
                   delays>>
    /\ UNCHANGED <<asmVars, bcVars, cliRest>>

\* finally: client.disconnect(), stop_event.set(), idle_task.cancel(), which
\* asks a task that has not finished to end. The  return 0  of line 384
\* then leaves run_logger; every other path goes on to  await idle_task
CliFinally ==
    /\ cliPc \in {"finally", "return"}
    /\ client' = client_disconnect(client)
    /\ stop_event' = TRUE
    /\ idlePc' = IF idlePc \in {"start", "sleep"} THEN "cancelling"
                 ELSE idlePc
    /\ IF cliPc = "return"
       THEN cliPc' = "done" /\ rc' = Exit(0)
       ELSE cliPc' = "await_idle" /\ UNCHANGED rc
    /\ UNCHANGED <<device, scanner, target, connects, stopPolls, delays>>
    /\ UNCHANGED <<asmVars, bcVars, cliBase>>

\* await idle_task  (lines 440-446) is over once the idle task has ended;
\* the log file is closed and run_logger returns 0
CliAwaitIdle ==
    /\ cliPc = "await_idle"
    /\ idlePc \in {"done", "cancelled"}
    /\ cliPc' = "done"
    /\ rc' = Exit(0)
    /\ UNCHANGED <<stop_event, device, client, scanner, target, connects,
                   stopPolls, delays, idlePc>>
    /\ UNCHANGED <<asmVars, bcVars, cliBase>>

\* _flush_idle: while not stop_event.is_set(): sleep(0.25), flush_if_idle
\* (nothing to flush: no byte is delivered in these runs)
CliIdleRun ==
    /\ cliPc # "none"
    /\ idlePc \in {"start", "sleep"}
    /\ idlePc' = IF stop_event THEN "done" ELSE "sleep"
    /\ UNCHANGED <<stop_event, device, client, scanner, target, cliPc,
                   connects, stopPolls, delays, rc>>
    /\ UNCHANGED <<asmVars, bcVars, cliBase>>

\* the cancelled idle task is run once more and ends with CancelledError
CliIdleCancelled ==
    /\ cliPc # "none"
    /\ idlePc = "cancelling"
    /\ idlePc' = "cancelled"
    /\ UNCHANGED <<stop_event, device, client, scanner, target, cliPc,
                   connects, stopPolls, delays, rc>>
    /\ UNCHANGED <<asmVars, bcVars, cliBase>>

NextCli ==
    \/ Sigint
    \/ CliScanStart \/ CliDetect \/ CliScanPoll \/ CliScanDone
    \/ CliConnect \/ CliSessionWait \/ CliSessionEnd
    \/ CliRetrySleep \/ CliFinally \/ CliAwaitIdle
    \/ CliIdleRun \/ CliIdleCancelled
    \/ PeerDisconnect

SpecCli == InitCli /\ [][NextCli]_vars

\* ------------------------------------------------------------------------
\* The start of the program: main, parse_args and run_logger up to the
\* first connection (nus_logger.py)
\* ------------------------------------------------------------------------
InitMain ==
    /\ AsmIdle
    /\ BcastIdle
    /\ CtlFresh({[ts_mode |-> "none", raw |-> FALSE, logfile |-> FALSE]},
                Devices, 0)
    /\ cliPc = "parse"
    /\ args = NoArgs
    /\ connects = <<>>
    /\ stopPolls = 0
    /\ delays = <<>>
    /\ argv \in ArgvChoices
    /\ stdin_tty \in BOOLEAN
    /\ rc = NoExit
    /\ transportUsed = FALSE
    /\ apiScans = 0
    /\ notified = <<>>

\* what the steps before the first scan leave alone
mainRest == <<settings, stop_event, connecting, device, loop_task,
              logfile_handle, sinkWrites, client, target, runPc, byteBudget,
              inRange, idleWakeAt, discPc, discResult, connects, stopPolls,
              delays, argv, stdin_tty, apiVars>>

\* main: args = parse_args(sys.argv[1:])
ParseArgs ==
    /\ cliPc = "parse"
    /\ args' = parse_args(argv)
    /\ cliPc' = "main"
    /\ UNCHANGED <<scanner, idlePc, rc, transportUsed>>
    /\ UNCHANGED <<asmVars, bcVars, mainRest>>

\* run_logger lines 200-333: log file, stop event, signal handler,
\* assembler, NUSClient, the idle task, and the first scan up to
\*  await scanner.start()
BeginLogger(name, adv_filter) ==
    /\ idlePc' = "start"
    /\ scanner' = NewScan(name, <<>>, adv_filter)
    /\ transportUsed' = TRUE
    /\ cliPc' = "scan_start"

\* run_logger from its first line to its first suspension: --list goes to
\* list_devices and its scan; the wizard returns None at once when stdin
\* is not a terminal, and run_logger returns 0, else the wizard starts to
\* scan; otherwise the logger is set up and the first scan starts
RunLoggerEntry ==
    /\ cliPc = "main"
    /\ IF args.list
       THEN /\ cliPc' = "list_scan"
            /\ transportUsed' = TRUE
            /\ UNCHANGED <<scanner, idlePc, rc>>
       ELSE IF args.wizard
       THEN IF ~stdin_tty
            THEN /\ cliPc' = "done"
                 /\ rc' = Exit(0)
                 /\ UNCHANGED <<scanner, idlePc, transportUsed>>
            ELSE /\ cliPc' = "wizard"
                 /\ transportUsed' = TRUE
                 /\ UNCHANGED <<scanner, idlePc, rc>>
       ELSE /\ BeginLogger(args.name, args.adv_filter)
            /\ UNCHANGED rc
    /\ UNCHANGED args
    /\ UNCHANGED <<asmVars, bcVars, mainRest>>

\* list_devices: the scan ends; 0 when it returned, 2 when it raised
ListDevices ==
    /\ cliPc = "list_scan"
    /\ \E ok \in BOOLEAN : rc' = Exit(IF ok THEN 0 ELSE 2)
    /\ cliPc' = "done"
    /\ UNCHANGED <<args, scanner, idlePc, transportUsed>>
    /\ UNCHANGED <<asmVars, bcVars, mainRest>>

\* wizard_flow on a terminal, its scans and prompts taken together: the
\* user quits (None, run_logger returns 0), or selects one of the devices a
\* scan listed, with the advertisement filter possibly switched off; the
\* new arguments name the device and its full address, and run_logger goes
\* on to its first scan
Wizard ==
    /\ cliPc = "wizard"
    /\ \/ /\ cliPc' = "done"
          /\ rc' = Exit(0)
          /\ UNCHANGED <<args, scanner, idlePc, transportUsed>>
       \/ \E d \in inRange, adv_filter \in BOOLEAN :
             /\ adv_filter => args.adv_filter /\ d.adv_nus
             /\ args' = [args EXCEPT !.wizard = FALSE, !.name = d.name,
                                     !.filter_addr = d.address,
                                     !.adv_filter = adv_filter]
             /\ BeginLogger(d.name, adv_filter)
             /\ UNCHANGED rc
    /\ UNCHANGED <<asmVars, bcVars, mainRest>>

NextMain ==
    \/ ParseArgs \/ RunLoggerEntry \/ ListDevices \/ Wizard
    \/ CliScanStart \/ CliDetect \/ CliScanPoll \/ CliScanDone
    \/ CliConnect \/ CliFinally \/ CliAwaitIdle
    \/ CliIdleRun \/ CliIdleCancelled

SpecMain == InitMain /\ [][NextMain]_vars

\* ------------------------------------------------------------------------
\* Properties of the LineAssembler (checked under SpecAsm)
\* ------------------------------------------------------------------------
IsFeed(e) == e.src = "feed"
IsFlush(e) == e.src = "flush"
LinesOf(s) == [i \in 1..Len(s) |-> s[i].line]
FeedEmitted == LinesOf(SelectSeq(emitted, IsFeed))
NoFlushYet == SelectSeq(emitted, IsFlush) = <<>>

\* every CR of s stands directly before an LF (or is the last byte so far)
CROnlyBeforeLF(s) ==
    \A i \in 1..Len(s) : s[i] = CR => (i = Len(s) \/ s[i + 1] = LF)

\* C2: chunk-boundary independence. As long as no partial line was flushed,
\* the lines returned by the feed calls so far, concatenated, are the lines
\* one feed of all the bytes fed so far returns; a chunk without a newline
\* returns nothing and a chunk returns one line per newline it holds.
C2_ChunkBoundaryIndependence ==
    /\ NoFlushYet =>
           LinesOf(emitted) = feed(NewLineAssembler(0), fed, 0).lines
    /\ lastOp.kind = "feed" =>
           /\ Len(lastOp.lines) = Count(lastOp.data, LF)
           /\ ~Contains(lastOp.data, LF) => lastOp.lines = <<>>

\* C2 witness: a line whose bytes arrived in earlier chunks is completed by a
\* later chunk that starts with the newline, and two lines were returned.
C2_Witness ==
    /\ NoFlushYet
    /\ lastOp.kind = "feed"
    /\ Len(lastOp.data) >= 1 /\ lastOp.data[1] = LF
    /\ Len(lastOp.lines) >= 1 /\ Len(lastOp.lines[1]) >= 1
    /\ Len(emitted) >= 2

\* C3 as stated: no returned line (of feed or of the idle flush) ever holds
\* a CR byte.
C3_NoCREverEmitted ==
    \A i \in 1..Len(emitted) : ~Contains(emitted[i].line, CR)

\* C3 amended: LF and CRLF both end a line (feed returns exactly one line
\* per LF fed), and when every CR of the input stands directly before an LF
\* no line returned by feed holds a CR.
C3_CRLFDelimiterStripped ==
    /\ Len(FeedEmitted) = Count(fed, LF)
    /\ CROnlyBeforeLF(fed) =>
           \A i \in 1..Len(FeedEmitted) : ~Contains(FeedEmitted[i], CR)

\* C3 witness: a non-empty line ended by CRLF was returned by feed.
C3_Witness ==
    /\ CROnlyBeforeLF(fed)
    /\ NoFlushYet
    /\ \E i \in 1..(Len(fed) - 1) : fed[i] = CR /\ fed[i + 1] = LF
    /\ \E i \in 1..Len(FeedEmitted) : FeedEmitted[i] = <<LetterA>>

\* C4: flush_if_idle returns the buffered bytes and empties the buffer
\* exactly when the buffer is non-empty and at least the threshold has
\* passed since the latest feed; otherwise it returns nothing and leaves
\* the buffer alone; a flush right after a successful flush returns nothing.
C4_IdleFlush ==
    lastOp.kind = "flush" =>
        /\ IF lastOp.prebuf # <<>> /\ lastOp.at - lastFeedAt >= lastOp.idle
           THEN lastOp.some /\ lastOp.line = lastOp.prebuf
                /\ assembler.buf = <<>>
           ELSE ~lastOp.some /\ assembler.buf = lastOp.prebuf
        /\ lastOp.repeat => ~lastOp.some

\* C4 witness: after a feed restarted the idle clock, a flush returned the
\* buffer and the flush repeated right after it returned nothing.
C4_Witness ==
    /\ lastOp.kind = "flush"
    /\ lastOp.repeat
    /\ lastFeedAt > 0
    /\ \E i \in 1..Len(emitted) : emitted[i].src = "flush"

\* ------------------------------------------------------------------------
\* Properties of the broadcaster (checked under SpecBcast and SpecTail)
\* ------------------------------------------------------------------------
NonEmptyLine(l) == l # <<>>
LastN(s, n) == SubSeq(s, Len(s) - Min(n, Len(s)) + 1, Len(s))

\* C8: the tail buffer never holds more than tail_max (1000) lines.
C8_TailBounded == Len(tail) <= tail_max

\* C8 witness: the buffer is full and lines were evicted from it.
C8_Witness ==
    /\ Len(tail) = tail_max
    /\ Len(SelectSeq(published, NonEmptyLine)) > tail_max

\* C9 as stated: for every limit >= 0, get_tail(limit) returns at most limit
\* lines, at most tail_max lines, and they are the latest lines of the
\* buffer in publish order.
C9_TailAtMostLimit ==
    tailResult.called =>
        /\ Len(tailResult.lines) <= tailResult.limit
        /\ Len(tailResult.lines) <= tail_max
        /\ tailResult.lines = LastN(tailResult.of, tailResult.limit)

\* C10 as stated: the tail buffer is the last min(count, tail_max) lines
\* passed to publish, in publish order.
C10_TailIsLastPublished == tail = LastN(published, tail_max)

\* C10 amended: the tail buffer is the last min(count, tail_max) non-empty
\* lines passed to publish, in publish order (the oldest are evicted first).
C10_TailIsLastNonEmptyPublished ==
    tail = LastN(SelectSeq(published, NonEmptyLine), tail_max)

\* C10 witness: more than tail_max non-empty lines were published, the last
\* two of them different, so that the oldest line was evicted.
C10_Witness ==
    /\ Len(SelectSeq(published, NonEmptyLine)) > tail_max
    /\ pubCount >= 2
    /\ tail[Len(tail)] # tail[Len(tail) - 1]
    /\ tail[1] # published[1]


\* ------------------------------------------------------------------------
\* Properties of the controller
\* ------------------------------------------------------------------------

\* the steps the controller's own tasks (disconnect(), _run_loop and
\* _idle_flush_task) and the clock can take; the peer's acts (dropping the
\* link, notifying, advertising) and further API calls are not among them
ControllerStep ==
    \/ DisconnectResume
    \/ RunStart \/ RunScanStart \/ RunScanPoll \/ RunScanDone \/ RunConnect
    \/ RunSessionEnd \/ RunFinally \/ RunCleanup \/ RunAwaitIdle
    \/ IdleStart \/ IdleWake \/ Tick

\* C1 as stated, in the form a finite run refutes: while a disconnect()
\* call has set the stop signal and has not completed, the controller
\* always has a step of its own left to take towards completing it; it
\* never stands where only the peer dropping the link lets it go on.
C1_DisconnectNeverWaitsForPeer ==
    discPc = "await_loop" => ENABLED ControllerStep

\* the lines handed to _write_line so far: every completed or flushed line,
\* formatted, in arrival order
Formatted ==
    [i \in 1..Len(emitted) |-> format_line(settings, emitted[i].line)]

\* the part of s a subscriber holding handle h was there for
Since(s, h) == SubSeq(s, subSince[h] + 1, Len(s))

\* C7 as stated: every completed or flushed line, an empty one included, is
\* in the tail, in every current subscriber's queue and in the log file,
\* exactly once and in arrival order.
C7_EveryLineBroadcastAndLogged ==
    /\ tail = LastN(Formatted, tail_max)
    /\ \A i \in 1..Len(line_subscribers) :
           queues[line_subscribers[i]] =
               Since(Formatted, line_subscribers[i])
    /\ logfile_handle => sinkWrites = Formatted

\* C7 amended: every completed or flushed line is written to the log file
\* exactly once and in arrival order, an empty one included; the tail and
\* every current subscriber's queue get, exactly once and in arrival order,
\* the lines whose formatted text is not empty.
C7_NonEmptyBroadcastAllLogged ==
    /\ tail = LastN(SelectSeq(Formatted, NonEmptyLine), tail_max)
    /\ \A i \in 1..Len(line_subscribers) :
           queues[line_subscribers[i]] =
               SelectSeq(Since(Formatted, line_subscribers[i]), NonEmptyLine)
    /\ logfile_handle => sinkWrites = Formatted

\* C7 witness: an empty line was completed and logged, a partial line was
\* flushed, and a subscriber that came after the first line holds a line.
C7_Witness ==
    /\ logfile_handle
    /\ \E i \in 1..Len(emitted) : Formatted[i] = <<>>
    /\ \E i \in 1..Len(emitted) :
           emitted[i].src = "flush" /\ Formatted[i] # <<>>
    /\ \E i \in 1..Len(line_subscribers) :
           /\ subSince[line_subscribers[i]] > 0
           /\ queues[line_subscribers[i]] # <<>>


\* C5 as stated: every connection of a run, the first and every
\* reconnection, is to the same address.
C5_ReconnectSameAddress ==
    \A i \in 1..Len(connects) : connects[i] = connects[1]

\* C6 as stated: once the stop signal is set, the connection loop does not
\* go on waiting; at most one more wait (a scan poll sleep or the retry
\* sleep) begins before the loop is on its way out.
C6_StopEndsWaitPromptly == stopPolls <= 1


\* ------------------------------------------------------------------------
\* Properties of the subscriptions (checked under SpecBcast)
\* ------------------------------------------------------------------------
IsPrefix(a, b) == Len(a) <= Len(b) /\ SubSeq(b, 1, Len(a)) = a

\* the lines published since queue h was created that the broadcaster
\* passes on (an empty line is not passed on)
Delivered(h) == SelectSeq(Since(published, h), NonEmptyLine)

\* C11: a queue holds only lines published after its subscribe() call, each
\* once and in publish order, and nothing of the history before it: what it
\* holds is a prefix of the lines passed on since then, and all of them as
\* long as it is subscribed.
C11_SubscriberGetsOnlyLaterLines ==
    \A h \in DOMAIN queues :
        /\ IsPrefix(queues[h], Delivered(h))
        /\ h \in Range(line_subscribers) => queues[h] = Delivered(h)

\* C11 witness: a subscriber that came when the history already held lines
\* has received a later line, and holds fewer lines than the history.
C11_Witness ==
    \E h \in Range(line_subscribers) :
        /\ subSince[h] > 0
        /\ queues[h] # <<>>
        /\ Len(queues[h]) < Len(tail)

C13_QueueBounded ==
    \A h \in DOMAIN queues : Len(queues[h]) < MaxPublish


\* the non-empty ones among the lines a step publishes
StepLines ==
    SelectSeq(SubSeq(published', Len(published) + 1, Len(published')),
              NonEmptyLine)

\* C14 (checked under SpecApi): in every step of the controller and its
\* callers, a queue that is not subscribed is left as it is (nothing is
\* enqueued after unsubscribe has returned), a subscribed queue gets every
\* line the step publishes whole and in order, a queue created by the step
\* starts empty, and a queue leaves the subscriber list only in an
\* unsubscribe step.
C14_SubscriptionsUnderInterleaving ==
    [][/\ \A h \in DOMAIN queues :
              IF h \in Range(line_subscribers)
              THEN queues'[h] = queues[h] \o StepLines
              ELSE queues'[h] = queues[h]
       /\ \A h \in DOMAIN queues' : h \notin DOMAIN queues => queues'[h] = <<>>
       /\ Range(line_subscribers) \ Range(line_subscribers') # {}
              => Unsubscribe]_vars

\* C14 witness: a queue that was unsubscribed during a run misses a line
\* published afterwards.
C14_Witness ==
    \E h \in DOMAIN queues :
        /\ h \notin Range(line_subscribers)
        /\ queues[h] # Delivered(h)
        /\ loop_task # "None"


\* C15 as stated: a connect() call made while the run loop task is running
\* starts no second run loop and leaves a pending stop request (and the
\* position of the run loop) as it is.
C15_ConnectWhileRunningIsNoOp ==
    [][(loop_task = "running" /\ Connect) =>
          UNCHANGED <<loop_task, runPc, stop_event>>]_vars


\* C16 as stated: a connect() call whose effective name is empty, made
\* while no run loop is running, starts the run loop (Idle to Scanning).
C16_EmptyNameStartsScan ==
    [][(Connect /\ settings'.name = <<>> /\ loop_task # "running") =>
          loop_task' = "running"]_vars

\* C16 amended: a connect() call whose effective name is empty is rejected:
\* apart from storing the settings it changes nothing; no run loop is
\* started and the stop signal is left alone.
C16_EmptyNameRejected ==
    [][(Connect /\ settings'.name = <<>>) =>
          UNCHANGED <<stop_event, loop_task, runPc, scanner, connecting,
                      device, client>>]_vars

\* C16 witness: connect(name="") was called after a run loop was started
\* with a name; the loop is still the only one and the name is now empty.
C16_Witness ==
    /\ loop_task = "running"
    /\ settings.name = <<>>


\* ------------------------------------------------------------------------
\* Properties of run_logger's connection loop (checked under SpecCli)
\* ------------------------------------------------------------------------
\* the candidates of the scan that has just ended, as a set, the hint the
\* selection is made with, and the candidates the hint narrows them to
Candidates ==
    {DiscoveredDevice(d) : d \in
        {x \in Range(scanner.seen) :
            /\ NameMatches(scanner.name, x.name)
            /\ scanner.require_adv_nus => x.adv_nus}}
Hint == IF cliPc = "reconnect" THEN device.dev.address ELSE args.filter_addr
HintMatches(c) == IsSubstr(lower(Hint), lower(c.address))
Pool ==
    IF Hint # <<>> /\ (\E c \in Candidates : HintMatches(c))
    THEN {c \in Candidates : HintMatches(c)}
    ELSE Candidates

\* C17: the device chosen for connection is a strongest candidate among
\* those matching the preferred-address hint when a hint is set and some
\* candidate matches it, and a strongest among all candidates otherwise.
C17_TargetIsStrongestOfPool ==
    cliPc \in {"connect", "reconnect"} =>
        /\ target.some
        /\ target.dev \in Pool
        /\ \A c \in Pool : c.rssi <= target.dev.rssi

\* C17 witness: the hint narrowed the candidates: the chosen device matches
\* it although a stronger candidate was seen.
C17_Witness ==
    /\ cliPc = "connect"
    /\ Hint # <<>>
    /\ HintMatches(target.dev)
    /\ \E c \in Candidates : c.rssi > target.dev.rssi


\* C18 as stated: a scan of the connection loop that ends with no candidate
\* leads to the retry wait (Backoff) when reconnect is enabled and to the
\* end of the run only when it is disabled, for the first scan as for a
\* rescan.
C18_NoCandidatesBacksOff ==
    [][(cliPc = "scan_stop" /\ Candidates = {} /\ cliPc' # cliPc) =>
          cliPc' = IF args.reconnect THEN "retry_sleep" ELSE "finally"]_vars

\* C19 as stated, for the controller: the run loop leaves a live session
\* for its end only when a stop was requested; after a disconnect by the
\* peer it goes on to reconnect.
C19_SessionLossReconnects ==
    [][(runPc = "session" /\ runPc' = "finally") => stop_event]_vars

\* C20: the waits between failed reconnect attempts form a capped exponential
\* sequence: as long as the link has not come up again, each wait is double
\* the one before it, up to the cap (15 s, i.e. 150 tenths of a second)
C20_DelaysDoubleUntilCap ==
    \A i \in 2..Len(delays) : delays[i] = Min(2 * delays[i - 1], 150)

\* C21: a connection attempt of the run loop that fails is followed by a
\* new scan: unless a stop was requested, the run loop never goes from the
\* connection attempt to its end.
C21_FailedConnectIsRetried ==
    [][(runPc = "connect" /\ runPc' = "finally") => stop_event]_vars

\* C22: the reconnect loop gives up after a bounded number of attempts: a
\* new scan is started after a retry wait only while the failed attempts
\* since the link was last up are fewer than the maximum (here the largest
\* number of failed attempts the model follows, for whatever maximum is
\* configured).
C22_RetriesExhaust ==
    [][(cliPc = "retry_sleep" /\ cliPc' = "scan_start")
           => Len(delays) < MaxRetries]_vars

\* C23: a partial line is not lost when the session ends: once the run loop
\* has ended, no received byte is still waiting in the LineAssembler buffer.
C23_NothingLeftAtEnd == runPc = "done" => assembler.buf = <<>>

\* C24: every failure path resolves to a concrete state: Status() never
\* reports connected and connecting together; once the run loop has run its
\* finally block (it waits for the idle task, or has ended) Status() no
\* longer reports connecting, and once it has ended Status() reports not
\* connected, not connecting and no device.
C24_StatusResolved ==
    /\ ~(status.connected /\ status.connecting)
    /\ runPc \in {"await_idle", "done"} => ~status.connecting
    /\ runPc = "done" =>
           /\ ~status.connected
           /\ ~status.connecting
           /\ ~status.device.some

\* C24 witness: a run loop has ended without ever having had a connection
\* (its scan or its connection attempt failed) and Status() is resolved
C24_Witness ==
    /\ runPc = "done"
    /\ ~client.has
    /\ status = [connected |-> FALSE, connecting |-> FALSE,
                 device |-> NoDevice, retries |-> 0]

\* C27: on every shutdown path the idle-flush poller is cancelled and awaited
\* to completion before the session is over: once run_logger has returned,
\* an idle task that was created has ended.
C27_IdlePollerEndedAtReturn ==
    cliPc = "done" => idlePc \in {"none", "done", "cancelled"}

\* C25: started with no command-line argument the CLI is in wizard mode, and
\* when standard input is not a terminal run_logger returns 0 at once, with
\* no scan or connection started and no idle task created.
C25_NoArgsNoTtyAborts ==
    /\ (argv = <<>> /\ cliPc = "main") => args.wizard
    /\ (argv = <<>> /\ ~stdin_tty /\ cliPc \notin {"parse", "main"}) =>
           /\ cliPc = "done"
           /\ rc = Exit(0)
           /\ ~transportUsed
           /\ scanner = NoScan /\ ~client.has
           /\ idlePc = "none"

\* C25 witness: the run without arguments and without a terminal has ended
C25_Witness ==
    /\ argv = <<>> /\ ~stdin_tty
    /\ cliPc = "done" /\ rc = Exit(0)

\* the transport operations of the controller that are in progress: the run
\* loop's scan, connection attempt or disconnect, and the public scans
LoopOps ==
    IF runPc \in {"scan_start", "scan_poll", "scan_stop", "connect",
                  "cleanup"}
    THEN 1 ELSE 0

\* C26: no two transport operations of one controller are in progress at the
\* same time.
C26_OneTransportOperation == LoopOps + apiScans <= 1

\* C28: an error raised by the callback while it handles a chunk stays
\* inside that invocation: nothing is raised towards the transport and the
\* session is as connected and as subscribed to notifications as before,
\* so that later chunks are still delivered.
C28_CallbackErrorContained ==
    [][Len(notified') > Len(notified) =>
          /\ ~notified'[Len(notified')].left
          /\ client' = client
          /\ is_connected(client') /\ client'.notifying]_vars

\* C28 witness: a callback raised on one chunk, and a later chunk was
\* delivered to the callback
C28_Witness ==
    \E i, j \in 1..Len(notified) :
        /\ i < j
        /\ notified[i].outcome = "Exception"
        /\ notified[j].outcome = "returns"
        /\ Len(published) > 0

\* C29: a failed connection attempt leaves no connection open: while the
\* reconnect loop waits after a failed attempt and scans again, the client
\* holds no open low-level connection.
C29_NoLinkAfterFailedConnect ==
    cliPc \in {"retry_sleep", "scan_start", "scan_poll", "scan_stop",
               "reconnect"}
        => ~is_connected(client)

\* a call of run_until_disconnect is inside its loop
Waiting == cliPc \in {"waiting", "waiting_plain"}

C31_DisconnectNeverRaises == discResult # "raised"

\* C32: while a disconnect() call has requested a stop and waits for the run
\* loop, the run loop starts no connection attempt and the controller does
\* not become connected.
C32_NoConnectAfterStop ==
    [][(discPc = "await_loop" /\ stop_event) =>
          /\ runPc' = "connect" => runPc = "connect"
          /\ status'.connected => status.connected]_vars

\* does sequence p start sequence s
StartsWith(s, p) == Len(p) <= Len(s) /\ SubSeq(s, 1, Len(p)) = p

\* sequence s without its first n elements
DropFirst(s, n) == SubSeq(s, n + 1, Len(s))

\* the input  rest  is the emitted entries  es  in order, each line returned
\* by feed followed by its removed delimiter (LF or CR LF), each flushed
\* partial line followed by nothing, and then the buffer  buf
RECURSIVE Rebuilds(_, _, _)
Rebuilds(es, rest, buf) ==
    IF es = <<>>
    THEN rest = buf
    ELSE LET e     == Head(es)
             after == DropFirst(rest, Len(e.line)) IN
         /\ StartsWith(rest, e.line)
         /\ IF e.src = "flush"
            THEN Rebuilds(Tail(es), after, buf)
            ELSE \/ /\ StartsWith(after, <<LF>>)
                    /\ Rebuilds(Tail(es), DropFirst(after, 1), buf)
                 \/ /\ StartsWith(after, <<CR, LF>>)
                    /\ Rebuilds(Tail(es), DropFirst(after, 2), buf)

\* C33: under any interleaving of feed and flush_if_idle, the emitted lines
\* in emission order followed by the buffer are the fed bytes in order with
\* only line delimiters (LF, or CR directly before LF) removed after the
\* lines returned by feed; no other byte is dropped, duplicated or reordered.
C33_BytesConserved == Rebuilds(emitted, fed, assembler.buf)

\* C33 witness: feeds and a flush have interleaved: a flushed partial line is
\* followed by a line returned by feed, and bytes are still buffered.
C33_Witness ==
    /\ \E i \in 1..Len(emitted) : \E j \in 1..Len(emitted) :
          /\ i < j
          /\ emitted[i].src = "flush"
          /\ emitted[j].src = "feed"
          /\ emitted[j].line # <<>>
    /\ assembler.buf # <<>>

\* C34: whenever the session is live (the transport is connected and the run
\* loop waits in run_until_disconnect), the idle-flush poller is running: it
\* is about to test its loop condition or sleeps between two polls.
C34_LiveSessionHasPoller ==
    (runPc = "session" /\ is_connected(client)) => idlePc \in {"start", "sleep"}

\* C35: whenever a session of the controller starts (the run loop's
\* connect_discovered succeeds and it goes on to wait for the disconnect),
\* the LineAssembler buffer is empty: no bytes of an earlier session are left
\* to be joined with the bytes of the new one.
C35_SessionStartsWithEmptyBuffer ==
    [][(runPc = "connect" /\ runPc' = "session") => assembler.buf = <<>>]_vars

\* ------------------------------------------------------------------------
\* SpecHint: one scan_and_connect of the run loop, from the accepted
\* connect() to the selected target, for every name, preferred-address hint
\* and advertisement filter and every order in which the devices are seen
\* ------------------------------------------------------------------------
\* settings.name: connect() accepts no empty name
HintNames == {<<100>>, <<68, 50>>}

\* settings.filter_addr: None, or a substring of an address
HintFilters == {<<>>, <<65>>, <<66>>, <<66, 49>>}

\* the controller right after connect() created the run loop task
InitHint ==
    /\ CliIdle
    /\ AsmIdle
    /\ BcastIdle
    /\ \E n \in HintNames, f \in HintFilters, adv \in BOOLEAN :
          settings = [LoggerSettings([ts_mode |-> "none", raw |-> FALSE,
                                      logfile |-> FALSE])
                        EXCEPT !.name = n, !.filter_addr = f,
                               !.require_adv_nus = adv]
    /\ stop_event = FALSE
    /\ connecting = FALSE
    /\ device = NoDevice
    /\ loop_task = "running"
    /\ logfile_handle = FALSE
    /\ sinkWrites = <<>>
    /\ client = NoClient
    /\ scanner = NoScan
    /\ target = NoDevice
    /\ runPc = "start"
    /\ byteBudget = 0
    /\ inRange = Devices
    /\ idlePc = "none"
    /\ idleWakeAt = 0
    /\ discPc = "idle"
    /\ discResult = "none"

NextHint == RunStart \/ RunScanStart \/ Detect \/ RunScanPoll \/ RunScanDone

SpecHint == InitHint /\ [][NextHint]_vars

\* the scan left its polling loop before the deadline, at the early-exit test
EndedEarly == scanner.early /\ scanner.left > 0

\* C36: when a scan of scan_and_connect has ended before its timeout by the
\* early exit, the candidates it returns contain a device whose address
\* matches the preferred-address hint, and the selection takes such a device
\* as the target to connect to.
C36_EarlyExitYieldsHintedTarget ==
    [][(runPc = "scan_stop" /\ runPc' # "scan_stop" /\ EndedEarly) =>
          /\ \E i \in 1..Len(scan_matches(scanner.seen, scanner.name,
                                          scanner.require_adv_nus)) :
                IsSubstr(lower(scanner.early_sub),
                         lower(scan_matches(scanner.seen, scanner.name,
                                      scanner.require_adv_nus)[i].address))
          /\ runPc' = "connect"
          /\ target'.some
          /\ IsSubstr(lower(scanner.early_sub), lower(target'.dev.address))]_vars

====
